---- MODULE Spec2Model ----
(***************************************************************************)
(* plink2weka.py: conversion of a PLINK dataset (map file + ped file) to   *)
(* a weka ARFF file, optionally with a second ("validate") dataset whose   *)
(* ARFF file shares the attribute declarations of the first.               *)
(*                                                                         *)
(* A text line that the program splits is modelled by its list of          *)
(* whitespace-separated tokens (the value of line.split()).  A row of the  *)
(* examplar file is the list of fields handed to csv.writer.writerow; the  *)
(* input tokens modelled here hold no comma or quote, so the writer emits  *)
(* the fields unquoted and csv_line below is its text.  A line of the ARFF *)
(* file is a record: its kind, the name it declares and its list of        *)
(* values.                                                                 *)
(***************************************************************************)
EXTENDS Integers, Sequences, FiniteSets, TLC

\* ---------------------------------------------------------------- bounds
MaxMarkers == 2
MaxLines == 2
MaxAlleleTokens == 4

\* ------------------------------------------------------------- constants
UNAFFECTED == "1"
AFFECTED == "2"
MISSING == "-9"

\* the two dataset names of main(): args.dataset and args.validate
Datasets == {"data", "validate_data"}

\* ----------------------------------------------------------------- inputs
MarkerIds == {"rs1", "rs2"}
\* a map line: chromosome and SNP name, or a line with the chromosome only
MapLines == {<<"1", id>> : id \in MarkerIds} \cup {<<"1">>}
MapFiles == UNION {[1..n -> MapLines] : n \in 0..MaxMarkers}

\* "0" is the other PLINK code of an unknown affection status
Phenotypes == {UNAFFECTED, AFFECTED, MISSING, "0"}
\* the allele tokens of a line: the major allele "A" throughout, or with the
\* minor allele "G" at one position g (genotypes AA, AG and GA occur)
AlleleSeqs ==
    UNION {{[k \in 1..n |-> IF k = g THEN "G" ELSE "A"] : g \in 0..n} :
           n \in 0..MaxAlleleTokens}
\* family, individual, father, mother, sex
Lead == <<"f", "i", "0", "0", "1">>
PedLines ==
    {<<>>, Lead} \cup {Lead \o <<ph>> \o al : ph \in Phenotypes, al \in AlleleSeqs}

VARIABLES
    map_file,          \* the lines of <dataset>.map
    validate,          \* args.validate is given
    pc,                \* position of main()
    features,          \* dict: SNP name -> set of genotypes
    snp_list,          \* ordered list of SNP names
    line,              \* the ped line read last, as its tokens
    nread,             \* per dataset: ped lines read so far
    nmissing,          \* per dataset: ped lines read whose token 5 is MISSING
    examplars,         \* per dataset: the rows of <dataset>.examplars
    examplars_closed,  \* per dataset: examplars.close() was called
    arff               \* per dataset: the lines of <dataset>.arff

vars == <<map_file, validate, pc, features, snp_list, line, nread, nmissing,
          examplars, examplars_closed, arff>>

\* ------------------------------------------------------------ build_features
EmptyDict == [k \in {} |-> {}]

seed_mutant == {}

\* the value every SNP's genotype set starts with: set(['00'])
seed == {"00"}

dict_set(d, k, v) == [x \in DOMAIN d \cup {k} |-> IF x = k THEN v ELSE d[x]]

RECURSIVE build_loop(_, _, _, _)
build_loop(mf, n, fd, sl) ==
    IF n > Len(mf) THEN [err |-> FALSE, features |-> fd, snp_list |-> sl]
    ELSE IF Len(mf[n]) < 2
         THEN [err |-> TRUE, features |-> fd, snp_list |-> sl]   \* IndexError
         ELSE LET currSNP == mf[n][2]
              IN build_loop(mf, n + 1, dict_set(fd, currSNP, seed), Append(sl, currSNP))

build_features(mf) == build_loop(mf, 1, EmptyDict, <<>>)

\* ----------------------------------------------------------- write_examplars
skip_line_mutant(phenotype) == phenotype \notin {UNAFFECTED, AFFECTED}

skip_line_never(phenotype) == FALSE

\* "skip if the phenotype is missing"
skip_line(phenotype) == phenotype = MISSING

genotype_mutant(a, b) == b \o a

\* currSNP = currLine[i]+currLine[i+1]
genotype(a, b) == a \o b

alignment_unchecked(outline, feats) == TRUE

\* assert(len(outline) == len(features))
alignment_ok(outline, feats) == Len(outline) = Cardinality(DOMAIN feats)

\* the while loop over the allele tokens; i and j count from 0 as in the code
RECURSIVE pairs_loop(_, _, _, _, _, _)
pairs_loop(currLine, i, j, outline, feats, sl) ==
    IF ~(i < Len(currLine))
    THEN [err |-> FALSE, outline |-> outline, features |-> feats]
    ELSE IF i + 1 >= Len(currLine)
         THEN [err |-> TRUE, outline |-> outline, features |-> feats]  \* currLine[i+1]
         ELSE LET currSNP == genotype(currLine[i + 1], currLine[i + 2])
                  out2 == Append(outline, currSNP)
              IN IF j >= Len(sl)
                 THEN [err |-> TRUE, outline |-> out2, features |-> feats]  \* snp_list[j]
                 ELSE pairs_loop(currLine, i + 2, j + 1, out2,
                                 [feats EXCEPT ![sl[j + 1]] = @ \cup {currSNP}], sl)

\* the body of "for line in ped_file": what becomes of one line
\*   kind "abort": an exception ends the run; "skip": continue; "row": writerow
process_line(ln, feats, sl) ==
    IF Len(ln) < 6
    THEN [kind |-> "abort", features |-> feats, row |-> <<>>]          \* currLine[5]
    ELSE LET phenotype == ln[6]
         IN IF skip_line(phenotype)
            THEN [kind |-> "skip", features |-> feats, row |-> <<>>]
            ELSE LET r == pairs_loop(SubSeq(ln, 7, Len(ln)), 0, 0, <<>>, feats, sl)
                 IN IF r.err \/ ~alignment_ok(r.outline, r.features)
                    THEN [kind |-> "abort", features |-> r.features, row |-> <<>>]
                    ELSE [kind |-> "row", features |-> r.features,
                          row |-> Append(r.outline, phenotype)]

\* the text csv.writer gives a row of fields that need no quoting
RECURSIVE csv_line(_)
csv_line(row) ==
    IF Len(row) = 0 THEN ""
    ELSE IF Len(row) = 1 THEN row[1]
         ELSE row[1] \o "," \o csv_line(Tail(row))

\* ----------------------------------------------------------- write_arff_file
\* "for item in genotype_set": the order a set is iterated in is fixed by the
\* set's contents here (one order per set, not specified which)
RECURSIVE printable_attributes(_)
printable_attributes(genotype_set) ==
    IF genotype_set = {} THEN <<>>
    ELSE LET item == CHOOSE x \in genotype_set : TRUE
         IN <<item>> \o printable_attributes(genotype_set \ {item})

ArffLine(kind, name, values) == [kind |-> kind, name |-> name, values |-> values]

arff_header_no_phenotype(feats, sl, data) ==
    <<ArffLine("relation", data, <<>>)>>
    \o [k \in 1..Len(sl) |-> ArffLine("attribute", sl[k], printable_attributes(feats[sl[k]]))]
    \o <<ArffLine("data", "", <<>>)>>

arff_header(feats, sl, data) ==
    <<ArffLine("relation", data, <<>>)>>
    \o [k \in 1..Len(sl) |-> ArffLine("attribute", sl[k], printable_attributes(feats[sl[k]]))]
    \o <<ArffLine("attribute", "phenotype", <<UNAFFECTED, AFFECTED>>)>>
    \o <<ArffLine("data", "", <<>>)>>

\* the data section: the examplar file, line for line
arff_data(rows) == [k \in 1..Len(rows) |-> ArffLine("row", "", rows[k])]

write_arff_file(feats, sl, rows, data) == arff_header(feats, sl, data) \o arff_data(rows)

\* ---------------------------------------------------------------------- main
main_interleaved(at, validating) ==
    CASE at = "build" -> "transcode_data"
      [] at = "transcode_data" -> "arff_data"
      [] at = "arff_data" -> IF validating THEN "transcode_validate_data" ELSE "done"
      [] at = "transcode_validate_data" -> "arff_validate_data"
      [] OTHER -> "done"

\* the order of the calls in main()
main_next(at, validating) ==
    CASE at = "build" -> "transcode_data"
      [] at = "transcode_data" ->
            IF validating THEN "transcode_validate_data" ELSE "arff_data"
      [] at = "transcode_validate_data" -> "arff_data"
      [] at = "arff_data" -> IF validating THEN "arff_validate_data" ELSE "done"
      [] OTHER -> "done"

Init ==
    /\ map_file \in MapFiles
    /\ validate \in BOOLEAN
    /\ pc = "build"
    /\ features = EmptyDict
    /\ snp_list = <<>>
    /\ line = <<>>
    /\ nread = [d \in Datasets |-> 0]
    /\ nmissing = [d \in Datasets |-> 0]
    /\ examplars = [d \in Datasets |-> <<>>]
    /\ examplars_closed = [d \in Datasets |-> FALSE]
    /\ arff = [d \in Datasets |-> <<>>]

\* features,snp_list = build_features(map_file)
BuildFeatures ==
    /\ pc = "build"
    /\ LET r == build_features(map_file)
       IN /\ features' = r.features
          /\ snp_list' = r.snp_list
          /\ pc' = IF r.err THEN "aborted" ELSE main_next(pc, validate)
    /\ UNCHANGED <<map_file, validate, line, nread, nmissing, examplars,
                   examplars_closed, arff>>

TotalRead == nread["data"] + nread["validate_data"]

\* one iteration of the loop of write_examplars over the ped file of dataset d
TranscodeLine(d) ==
    /\ pc = "transcode_" \o d
    /\ TotalRead < MaxLines
    /\ \E ln \in PedLines :
          LET r == process_line(ln, features, snp_list)
          IN /\ line' = ln
             /\ nread' = [nread EXCEPT ![d] = @ + 1]
             /\ nmissing' = [nmissing EXCEPT
                    ![d] = IF Len(ln) >= 6 /\ ln[6] = MISSING THEN @ + 1 ELSE @]
             /\ features' = r.features
             /\ examplars' = [examplars EXCEPT
                    ![d] = IF r.kind = "row" THEN Append(@, r.row) ELSE @]
             /\ pc' = IF r.kind = "abort" THEN "aborted" ELSE pc
    /\ UNCHANGED <<map_file, validate, snp_list, examplars_closed, arff>>

\* the ped file is exhausted: examplars.close(); return features
TranscodeEnd(d) ==
    /\ pc = "transcode_" \o d
    /\ examplars_closed' = [examplars_closed EXCEPT ![d] = TRUE]
    /\ pc' = main_next(pc, validate)
    /\ UNCHANGED <<map_file, validate, features, snp_list, line, nread, nmissing,
                   examplars, arff>>

\* write_arff_file(features, snp_list, arff, d)
WriteArffFile(d) ==
    /\ pc = "arff_" \o d
    /\ arff' = [arff EXCEPT ![d] = write_arff_file(features, snp_list, examplars[d], d)]
    /\ pc' = main_next(pc, validate)
    /\ UNCHANGED <<map_file, validate, features, snp_list, line, nread, nmissing,
                   examplars, examplars_closed>>

Transcode == \E d \in Datasets : TranscodeLine(d)
EndOfPed == \E d \in Datasets : TranscodeEnd(d)
Emit == \E d \in Datasets : WriteArffFile(d)

Next == BuildFeatures \/ Transcode \/ EndOfPed \/ Emit

Spec == Init /\ [][Next]_vars

\* =================================================================== claims
Range(f) == {f[k] : k \in DOMAIN f}
Supplied(d) == d = "data" \/ validate
ArffAttributes(a) == SelectSeq(a, LAMBDA l : l.kind = "attribute")
ArffRows(a) == SelectSeq(a, LAMBDA l : l.kind = "row")
\* the header without its @relation line
ArffSchema(a) == SelectSeq(a, LAMBDA l : l.kind \in {"attribute", "data"})
NoArffWritten == \A d \in Datasets : arff[d] = <<>>
DistinctMarkers == Cardinality(DOMAIN features)
\* the step reads one more line of the ped file of dataset d
ReadStep(d) == nread'[d] = nread[d] + 1
Retained(ln) == Len(ln) >= 6 /\ ln[6] # MISSING
NumAlleleTokens(ln) == IF Len(ln) > 6 THEN Len(ln) - 6 ELSE 0
\* the row the specification describes for a line: tokens 6+2k and 7+2k (from 0)
\* joined in that order, then the phenotype token
ExpectedRow(ln) ==
    LET n == NumAlleleTokens(ln) \div 2
    IN [k \in 1..(n + 1) |-> IF k <= n THEN ln[5 + 2 * k] \o ln[6 + 2 * k] ELSE ln[6]]
\* the genotype columns of a row: all but the last
GenotypeColumns(row) == 1..(Len(row) - 1)

C2_SameSchema ==
    (pc = "done" /\ validate) =>
        /\ ArffSchema(arff["data"]) = ArffSchema(arff["validate_data"])
        /\ arff["data"][1] = ArffLine("relation", "data", <<>>)
        /\ arff["validate_data"][1] = ArffLine("relation", "validate_data", <<>>)

\* both files are written, and the validation set added a genotype to an alphabet
\* after the primary set was transcoded
C2_Witness ==
    /\ pc = "done" /\ validate
    /\ \E k \in 1..Len(snp_list) : \E rv \in Range(examplars["validate_data"]) :
          /\ k \in GenotypeColumns(rv)
          /\ rv[k] \notin {rp[k] : rp \in Range(examplars["data"])} \cup {"00"}
    /\ Len(ArffSchema(arff["data"])) = Len(snp_list) + 2

\* C3: while the run has not aborted, the rows written for a dataset number the
\* ped lines read minus those whose phenotype token is "-9"; the ARFF data
\* section has as many.
C3_RowCount ==
    pc # "aborted" =>
        \A d \in Datasets :
            /\ Len(examplars[d]) = nread[d] - nmissing[d]
            /\ arff[d] # <<>> => Len(ArffRows(arff[d])) = nread[d] - nmissing[d]

C3_Witness ==
    /\ pc = "done"
    /\ nmissing["data"] > 0
    /\ nread["data"] > nmissing["data"]
    /\ Len(ArffRows(arff["data"])) = nread["data"] - nmissing["data"]

\* C4: in every ARFF file, the value at column i of a data row is among the
\* values the i-th attribute line declares; the phenotype of every row is "1" or
\* "2", and "-9" is nowhere in the data.
C4_ClosedWorld ==
    \A d \in Datasets : \A r \in Range(ArffRows(arff[d])) :
        /\ \A i \in 1..Len(r.values) :
              /\ i <= Len(ArffAttributes(arff[d]))
              /\ r.values[i] \in Range(ArffAttributes(arff[d])[i].values)
              /\ r.values[i] # MISSING
        /\ r.values[Len(r.values)] \in {UNAFFECTED, AFFECTED}

\* C5 as stated: a ped line with an odd number of allele tokens, or with fewer
\* than 6 + 2 * marker count tokens, aborts the run, with no ARFF line written.
\* (Stated for maps without a repeated SNP name, where the marker count is not
\* in question.)
C5_BadLine(ln) ==
    \/ NumAlleleTokens(ln) % 2 = 1
    \/ Len(ln) < 6 + 2 * Len(snp_list)
C5_BadRetainedLine(ln) ==
    \/ Len(ln) < 6
    \/ /\ ln[6] # MISSING
       /\ \/ NumAlleleTokens(ln) % 2 = 1
          \/ Len(ln) < 6 + 2 * DistinctMarkers
C6_MissingDiscarded ==
    [][\A d \in Datasets :
          (ReadStep(d) /\ Len(line') >= 6 /\ line'[6] = MISSING)
              => (examplars' = examplars /\ features' = features /\ pc' = pc)]_vars

\* a "-9" line with an odd number of allele tokens, holding a genotype its
\* marker's alphabet does not have, was read and the run goes on
C6_Witness ==
    /\ pc \in {"transcode_data", "transcode_validate_data"}
    /\ Len(line) >= 6 /\ line[6] = MISSING
    /\ NumAlleleTokens(line) = 3
    /\ snp_list # <<>>
    /\ (line[7] \o line[8]) \notin features[snp_list[1]]

\* C7: an ARFF file has content only once the examplar file of every supplied
\* dataset is closed, and from then on no alphabet and no examplar file changes.
C7_EmitAfterTranscode ==
    /\ [](\A d \in Datasets : arff[d] # <<>> =>
             \A d2 \in Datasets : Supplied(d2) => examplars_closed[d2])
    /\ [][~NoArffWritten => (features' = features /\ examplars' = examplars)]_vars

\* the primary ARFF file is written, the validation one is next, and the
\* validation set has rows
C7_Witness ==
    /\ pc = "arff_validate_data"
    /\ arff["data"] # <<>>
    /\ arff["validate_data"] = <<>>
    /\ examplars["validate_data"] # <<>>

\* C8: a row written for a ped line is the line's allele tokens joined pairwise
\* in order, then its phenotype token; a retained line of exactly 6 + 2n tokens,
\* n the marker count of a map without repeated names, gets this row written and
\* its genotypes added to the alphabets of its markers.
C8_RowContents ==
    [][\A d \in Datasets :
          (ReadStep(d) /\ Retained(line')) =>
              /\ examplars'[d] # examplars[d]
                    => examplars'[d] = Append(examplars[d], ExpectedRow(line'))
              /\ (Len(line') = 6 + 2 * Len(snp_list) /\ DistinctMarkers = Len(snp_list))
                    => /\ examplars'[d] = Append(examplars[d], ExpectedRow(line'))
                       /\ features' =
                            [m \in DOMAIN features |->
                                features[m] \cup {ExpectedRow(line')[k] :
                                    k \in {j \in 1..Len(snp_list) : snp_list[j] = m}}]]_vars

\* markers rs1, rs2 and the line "f i 0 0 1 2 A A G A": the row is AA,GA,2 and
\* the alphabets are {00,AA} and {00,GA}
C8_Witness ==
    /\ snp_list = <<"rs1", "rs2">>
    /\ line = <<"f", "i", "0", "0", "1", "2", "A", "A", "G", "A">>
    /\ examplars["data"] = << <<"AA", "GA", "2">> >>
    /\ csv_line(examplars["data"][1]) = "AA,GA,2"
    /\ features = [m \in {"rs1", "rs2"} |-> IF m = "rs1" THEN {"00", "AA"} ELSE {"00", "GA"}]

\* C9: an ARFF file is one @relation line, one @attribute line per map line in
\* map order, the phenotype attribute {1,2}, @data, then the rows of the
\* dataset's examplar file, which are appended in the order the lines are read.
C9_FileLayout(d) ==
    LET a == arff[d]
        n == Len(map_file)
    IN /\ Len(a) = n + 3 + Len(examplars[d])
       /\ a[1] = ArffLine("relation", d, <<>>)
       /\ \A k \in 1..n : a[1 + k].kind = "attribute" /\ a[1 + k].name = map_file[k][2]
       /\ a[n + 2] = ArffLine("attribute", "phenotype", <<"1", "2">>)
       /\ a[n + 3] = ArffLine("data", "", <<>>)
       /\ \A k \in 1..Len(examplars[d]) : a[n + 3 + k] = ArffLine("row", "", examplars[d][k])
C9_ArffLayout ==
    /\ [](\A d \in Datasets :
             /\ arff[d] # <<>> => C9_FileLayout(d)
             /\ (pc = "done" /\ Supplied(d)) => arff[d] # <<>>)
    /\ [][\A d \in Datasets :
             \/ examplars'[d] = examplars[d]
             \/ /\ ReadStep(d) /\ Retained(line')
                /\ examplars'[d] = Append(examplars[d], ExpectedRow(line'))]_vars

C9_Witness ==
    /\ pc = "done" /\ validate
    /\ Len(map_file) = 2
    /\ Len(examplars["data"]) > 0
    /\ Len(examplars["validate_data"]) > 0
    /\ C9_FileLayout("data") /\ C9_FileLayout("validate_data")

\* C10: reading a retained ped line aborts the run exactly if the number of
\* genotypes parsed from it differs from the number of markers of the ordered
\* list, whether or not a SNP name repeats; so every row of an examplar file has
\* marker count + 1 columns.  (The equivalence is stated for lines with an even
\* number of allele tokens, whose genotype count is not in question.)
C10_AlignmentCheck ==
    /\ [](\A d \in Datasets : \A r \in Range(examplars[d]) : Len(r) = Len(snp_list) + 1)
    /\ [][\A d \in Datasets :
             (ReadStep(d) /\ Retained(line') /\ NumAlleleTokens(line') % 2 = 0)
                 => ((pc' = "aborted") <=> (NumAlleleTokens(line') \div 2 # Len(snp_list)))]_vars

TypeOK == pc \in {"build", "transcode_data", "transcode_validate_data", "arff_data",
                  "arff_validate_data", "done", "aborted"}
====
